---- MODULE Spec2Model ----
(***************************************************************************)
(* Model of the three batch scripts of MaternalBrainPupillometry:          *)
(*   neuropticsProcessingSubjectAverages.py  (per-subject averager)        *)
(*   splitNeuropticsDataByProtocol.py        (protocol/eye splitter)       *)
(*   tbmsNeuropticsPhysioCorrStats.py        (group statistics pipeline)   *)
(* Each script has its own specification over the shared variables:        *)
(*   Spec       the averager, run repeatedly against one master file       *)
(*   SpecSplit  the splitter, run repeatedly against one output directory  *)
(*   SpecStats  one run of the statistics pipeline                         *)
(*                                                                         *)
(* A table cell is a tuple: <<>> is a missing value (pandas NaN), <<v>> a  *)
(* present value v.  A mean is <<>> (NaN) or the reduced fraction          *)
(* <<num, den>>.  A CSV line is the sequence of its text fields.           *)
(***************************************************************************)
EXTENDS Integers, Sequences, FiniteSets, TLC

VARIABLES
    pc,          \* position of the running script
    runs,        \* number of script runs started so far
    subject,     \* averager: the subject file the operator is processing
    csv_file,    \* the user's selection: [path, content]
    stdout,      \* messages printed by the current run
    averages,    \* averager: return value of calculate_averages
    master,      \* averager: the master CSV file in the working directory
    dir_exists,  \* splitter: tebs_neuroptics_output_files exists
    files,       \* splitter: set of files [name, header, rows] in the directory
    written,     \* splitter: sequence of file names written by the current run
    df,          \* statistics: the loaded dataset
    output_file, \* statistics: the report path chosen in the save dialog
    report,      \* statistics: the report file [exists, open, lines]
    artifacts,   \* statistics: the CSV and image files written beside the report
    comparison,  \* statistics: the values of the latest Step 4 iteration
    next_var     \* statistics: index of the next dependent variable of the running loop

statsVars == <<df, output_file, report, artifacts, comparison, next_var>>

vars == <<pc, runs, subject, csv_file, stdout, averages, master, dir_exists, files, written,
          df, output_file, report, artifacts, comparison, next_var>>

-----------------------------------------------------------------------------
(* Bounds of the model *)

MaxRows == 2
MaxRuns == 2

-----------------------------------------------------------------------------
(* Generic helpers *)

Missing == <<>>

IsMissing(cell) == cell = <<>>

Range(s) == {s[i] : i \in 1..Len(s)}

RECURSIVE GCD(_, _)
GCD(a, b) == IF b = 0 THEN a ELSE GCD(b, a % b)

RECURSIVE SumSeq(_)
SumSeq(s) == IF s = <<>> THEN 0 ELSE Head(s) + SumSeq(Tail(s))

\* all sequences over S of length at most n
SeqUpTo(S, n) == UNION {[1..k -> S] : k \in 0..n}

\* the file dialog returns "" when the user cancels
NoSelection == [path |-> "", content |-> [kind |-> "none"]]

\* a selected file that pd.read_csv cannot load or parse
Unreadable == [path |-> "broken.csv", content |-> [kind |-> "unreadable"]]

-----------------------------------------------------------------------------
(* Averager: input tables *)

\* columns a subject file may carry, in file order
AvgColumns == <<"Record ID", "MeasurementType", "Pupil Measured", "PLR Latency", "Notes">>

\* values a cell of each column may hold in the model
AvgCells(c) ==
    CASE c = "Record ID"       -> {<<7>>}
      [] c = "MeasurementType" -> {<<1>>, <<2>>, Missing}
      [] c = "Pupil Measured"  -> {<<"Left">>, <<"Right">>, Missing}
      [] c = "PLR Latency"     -> {<<1>>, <<3>>, Missing}
      [] c = "Notes"           -> {<<"x">>}

\* columns whose present values are text
TextColumns == {"Pupil Measured", "Notes"}

\* the column sets of the modelled subject files: complete, or lacking a key column
AvgColumnSets ==
    { AvgColumns,
      SelectSeq(AvgColumns, LAMBDA c : c # "MeasurementType"),
      SelectSeq(AvgColumns, LAMBDA c : c # "Pupil Measured"),
      SelectSeq(AvgColumns, LAMBDA c : c \notin {"MeasurementType", "Pupil Measured"}) }

\* one row of a file that has every column
AvgRow(mt, pupil, latency) ==
    [c \in Range(AvgColumns) |->
        CASE c = "Record ID"       -> <<7>>
          [] c = "MeasurementType" -> mt
          [] c = "Pupil Measured"  -> pupil
          [] c = "PLR Latency"     -> latency
          [] c = "Notes"           -> <<"x">>]

\* the rows a file with the columns cols may hold
AvgRows(cols) ==
    { [c \in Range(cols) |-> r[c]] :
        r \in { AvgRow(mt, pupil, latency) :
                  mt \in AvgCells("MeasurementType"),
                  pupil \in AvgCells("Pupil Measured"),
                  latency \in AvgCells("PLR Latency") } }

AvgTables ==
    UNION { { [kind |-> "csv", columns |-> cols, rows |-> rs] :
                rs \in SeqUpTo(AvgRows(cols), MaxRows) } : cols \in AvgColumnSets }

\* what the file dialog can return while the subject file t is in the folder
AvgSelections(t) == {NoSelection, Unreadable, [path |-> "subject.csv", content |-> t]}

-----------------------------------------------------------------------------
(* Averager: calculate_averages *)

\* dtype pd.read_csv infers for column c of table t
DType(t, c) ==
    IF t.rows = <<>> THEN "object"
    ELSE IF \A i \in 1..Len(t.rows) : IsMissing(t.rows[i][c]) THEN "float64"
    ELSE IF c \in TextColumns THEN "object"
    ELSE IF \E i \in 1..Len(t.rows) : IsMissing(t.rows[i][c]) THEN "float64"
    ELSE "int64"

non_numeric_columns == {"Record ID", "Device ID", "Time", "Pupil Measured", "MeasurementType"}

\* df.select_dtypes(include=['float64', 'int64']).columns minus the denylist
numeric_columns(t) ==
    SelectSeq(t.columns, LAMBDA c : DType(t, c) \in {"float64", "int64"}
                                    /\ c \notin non_numeric_columns)

\* the group keys in the order groupby(sort=True) yields them
MTOrder == <<1, 2>>
PupilOrder == <<"Left", "Right">>
KeyOrder ==
    [i \in 1..(Len(MTOrder) * Len(PupilOrder)) |->
        << <<MTOrder[((i - 1) \div Len(PupilOrder)) + 1]>>,
           <<PupilOrder[((i - 1) % Len(PupilOrder)) + 1]>> >>]

RowKey(row) == <<row["MeasurementType"], row["Pupil Measured"]>>

\* groupby drops the rows whose key has a missing component (dropna=True)
GroupKeys(rows) ==
    SelectSeq(KeyOrder, LAMBDA k : \E i \in 1..Len(rows) : RowKey(rows[i]) = k)

GroupRows(rows, k) == SelectSeq(rows, LAMBDA r : RowKey(r) = k)

\* a mean that counts a missing value as a row of value 0
MeanOverAllRows(cells) ==
    LET present == SelectSeq(cells, LAMBDA x : ~IsMissing(x))
        total   == SumSeq([i \in 1..Len(present) |-> present[i][1]])
        n       == Len(cells)
        g       == GCD(total, n)
    IN  IF Len(present) = 0 THEN Missing ELSE <<total \div g, n \div g>>

\* Series.mean(): the mean of the present values, NaN when there is none
Mean(cells) ==
    LET present == SelectSeq(cells, LAMBDA x : ~IsMissing(x))
        total   == SumSeq([i \in 1..Len(present) |-> present[i][1]])
        n       == Len(present)
        g       == GCD(total, n)
    IN  IF n = 0 THEN Missing ELSE <<total \div g, n \div g>>

GroupMean(rows, k, c) ==
    LET g == GroupRows(rows, k) IN Mean([i \in 1..Len(g) |-> g[i][c]])

None == [kind |-> "None"]

\* a calculate_averages whose failure paths return an empty frame instead of None
calculate_averages_empty_on_error(f) ==
    IF f.content.kind = "csv"
       /\ {"Pupil Measured", "MeasurementType"} \subseteq Range(f.content.columns)
    THEN [ret |-> [kind    |-> "DataFrame",
                   columns |-> numeric_columns(f.content),
                   index   |-> GroupKeys(f.content.rows),
                   data    |-> [i \in 1..Len(GroupKeys(f.content.rows)) |->
                                  [j \in 1..Len(numeric_columns(f.content)) |->
                                      GroupMean(f.content.rows, GroupKeys(f.content.rows)[i],
                                                numeric_columns(f.content)[j])]]],
          out |-> <<"Processing file">>]
    ELSE [ret |-> [kind |-> "DataFrame", columns |-> <<>>, index |-> <<>>, data |-> <<>>],
          out |-> <<"Processing file", "Error while processing the file">>]

\* calculate_averages: the value returned and the messages printed
calculate_averages(f) ==
    IF f.content.kind # "csv"
    THEN [ret |-> None, out |-> <<"Processing file", "Error while processing the file">>]
    ELSE IF ~({"Pupil Measured", "MeasurementType"} \subseteq Range(f.content.columns))
    THEN [ret |-> None, out |-> <<"Processing file", "Error: column is missing">>]
    ELSE LET t    == f.content
             cols == numeric_columns(t)
             keys == GroupKeys(t.rows)
         IN  [ret |-> [kind    |-> "DataFrame",
                       columns |-> cols,
                       index   |-> keys,
                       data    |-> [i \in 1..Len(keys) |->
                                      [j \in 1..Len(cols) |->
                                          GroupMean(t.rows, keys[i], cols[j])]]],
              out |-> <<"Processing file">>]

\* text of a number as to_csv writes it: integers plainly, floats with a fraction part
FormatInt(v) == ToString(v)
FormatFloat(v) == ToString(v) \o ".0"

\* text of a mean: NaN is written as the empty field; a non-integral mean is
\* written here as its exact ratio
FormatMean(m) ==
    IF IsMissing(m) THEN ""
    ELSE IF m[2] = 1 THEN FormatFloat(m[1])
    ELSE ToString(m[1]) \o "/" \o ToString(m[2])

\* the index level MeasurementType is float64 when the column had a missing value
FormatKey(t, k) ==
    << IF DType(t, "MeasurementType") = "int64" THEN FormatInt(k[1][1]) ELSE FormatFloat(k[1][1]),
       k[2][1] >>

\* DataFrame.to_csv(header=...): the lines written for the frame computed from table t
to_csv(t, frame, header) ==
    (IF header THEN << <<"MeasurementType", "Pupil Measured">> \o frame.columns >> ELSE <<>>)
    \o [i \in 1..Len(frame.index) |->
            FormatKey(t, frame.index[i]) \o [j \in 1..Len(frame.columns) |-> FormatMean(frame.data[i][j])]]

\* a file that does not exist, and a file holding the given lines
Absent == [exists |-> FALSE, lines |-> <<>>]
FileOf(lines) == [exists |-> TRUE, lines |-> lines]

\* the header line an operator puts into a master file created by hand
ManualHeader == <<"MeasurementType", "Pupil Measured", "PLR Latency">>

\* a write in mode 'w': the file is truncated first
overwrite_with(file, lines) == FileOf(lines)

\* open(filename, mode='a') followed by the write: creates the file when absent
append_to(file, lines) == FileOf(file.lines \o lines)

-----------------------------------------------------------------------------
(* Averager: the script *)

\* the statistics variables of a process that is not the statistics pipeline
StatsIdle ==
    /\ df = None
    /\ output_file = ""
    /\ report = [exists |-> FALSE, open |-> FALSE, lines |-> <<>>]
    /\ artifacts = {}
    /\ comparison = None
    /\ next_var = 1

AvgInit ==
    /\ StatsIdle
    /\ pc = "start"
    /\ runs = 0
    /\ subject \in AvgTables
    /\ csv_file = NoSelection
    /\ stdout = <<>>
    /\ averages = None
    /\ master \in {Absent, FileOf(<<ManualHeader>>)}
    /\ dir_exists = FALSE
    /\ files = {}
    /\ written = <<>>

othersA == <<subject, dir_exists, files, written, statsVars>>

\* csv_file = select_file()
AvgSelectFile ==
    /\ pc = "start"
    /\ runs < MaxRuns
    /\ \E f \in AvgSelections(subject) : csv_file' = f
    /\ stdout' = <<"Opening file dialog...", "Selected file">>
    /\ runs' = runs + 1
    /\ pc' = "selected"
    /\ UNCHANGED <<averages, master, othersA>>

\* if not csv_file: print("No file selected. Exiting program.")
AvgNoFile ==
    /\ pc = "selected"
    /\ csv_file.path = ""
    /\ stdout' = Append(stdout, "No file selected. Exiting program.")
    /\ pc' = "exit"
    /\ UNCHANGED <<runs, csv_file, averages, master, othersA>>

\* averages = calculate_averages(csv_file)
AvgCalculate ==
    /\ pc = "selected"
    /\ csv_file.path # ""
    /\ LET r == calculate_averages(csv_file)
       IN  /\ averages' = r.ret
           /\ stdout' = stdout \o r.out
    /\ pc' = "calculated"
    /\ UNCHANGED <<runs, csv_file, master, othersA>>

\* if averages is not None: ... (the False branch: the script ends)
AvgNoResult ==
    /\ pc = "calculated"
    /\ averages = None
    /\ pc' = "exit"
    /\ UNCHANGED <<runs, csv_file, stdout, averages, master, othersA>>

\* averages.to_csv(filename, mode='a', header=False)
AvgAppend ==
    /\ pc = "calculated"
    /\ averages # None
    /\ master' = append_to(master, to_csv(csv_file.content, averages, FALSE))
    /\ stdout' = stdout \o <<"Averages grouped by", "averages", "Results have been written">>
    /\ pc' = "exit"
    /\ UNCHANGED <<runs, csv_file, averages, othersA>>

\* the process ends; the operator starts the script again on another file
AvgRestart ==
    /\ pc = "exit"
    /\ runs < MaxRuns
    /\ pc' = "start"
    /\ csv_file' = NoSelection
    /\ stdout' = <<>>
    /\ averages' = None
    /\ UNCHANGED <<runs, master, othersA>>

Init == AvgInit

Next ==
    \/ AvgSelectFile
    \/ AvgNoFile
    \/ AvgCalculate
    \/ AvgNoResult
    \/ AvgAppend
    \/ AvgRestart

Spec == Init /\ [][Next]_vars

-----------------------------------------------------------------------------
(* Averager: properties *)

\* the run loaded a table that has both key columns
AvgLoaded ==
    /\ csv_file.content.kind = "csv"
    /\ {"MeasurementType", "Pupil Measured"} \subseteq Range(csv_file.content.columns)

\* calculate_averages has returned for the current run
AvgReturned == pc \in {"calculated", "exit"} /\ csv_file.path # ""

\* the (MeasurementType, Pupil Measured) pairs of the rows, a missing component included
PairsOfRows(rows) == {RowKey(rows[i]) : i \in 1..Len(rows)}

\* the pairs both of whose components are present
CompletePairs(rows) == {k \in PairsOfRows(rows) : ~IsMissing(k[1]) /\ ~IsMissing(k[2])}

\* the input columns of numeric dtype outside the denylist
WantedColumns(t) ==
    {c \in Range(t.columns) :
        /\ DType(t, c) \in {"float64", "int64"}
        /\ c \notin {"Record ID", "Device ID", "Time", "Pupil Measured", "MeasurementType"}}

\* m is the arithmetic mean of the present values of column c over the rows with key k
IsGroupMean(m, rows, k, c) ==
    LET idx   == {i \in 1..Len(rows) : RowKey(rows[i]) = k /\ ~IsMissing(rows[i][c])}
        ordered == CHOOSE q \in [1..Cardinality(idx) -> idx] : Range(q) = idx
        total == SumSeq([i \in 1..Cardinality(idx) |-> rows[ordered[i]][c][1]])
    IN  IF idx = {} THEN IsMissing(m)
        ELSE Len(m) = 2 /\ m[2] > 0 /\ m[1] * Cardinality(idx) = total * m[2]

\* the frame has one row per pair of the set pairs, the wanted columns, and group means
AveragesOver(frame, t, pairs) ==
    /\ Range(frame.index) = pairs
    /\ Len(frame.index) = Cardinality(pairs)
    /\ Len(frame.data) = Len(frame.index)
    /\ Range(frame.columns) = WantedColumns(t)
    /\ Len(frame.columns) = Cardinality(WantedColumns(t))
    /\ \A i \in 1..Len(frame.index) :
          /\ Len(frame.data[i]) = Len(frame.columns)
          /\ \A j \in 1..Len(frame.columns) :
                IsGroupMean(frame.data[i][j], t.rows, frame.index[i], frame.columns[j])

\* C1 as stated: for any input table that has the columns MeasurementType and
\* Pupil Measured, calculate_averages returns one row per distinct pair present in
\* the input rows (a pair with a missing component counted like any other), with
\* exactly the numeric non-denylisted columns, every cell the mean of its group.
C1_OneRowPerPairOfAnyRow ==
    (AvgReturned /\ AvgLoaded) =>
        /\ averages # None
        /\ AveragesOver(averages, csv_file.content, PairsOfRows(csv_file.content.rows))

\* C1 amended: the rows of the result are the distinct pairs of the input rows whose
\* MeasurementType and Pupil Measured are both present; a row with a missing key
\* value belongs to no group.  The columns are the numeric non-denylisted input
\* columns; a cell is the mean of the present values of its group, NaN if none.
C1_OneRowPerCompletePair ==
    (AvgReturned /\ AvgLoaded) =>
        /\ averages # None
        /\ AveragesOver(averages, csv_file.content, CompletePairs(csv_file.content.rows))

\* C1 witness: a result whose single group averages the two present values 1 and 3
C1_Witness ==
    /\ AvgReturned /\ AvgLoaded /\ averages # None
    /\ Len(averages.index) = 1
    /\ Len(csv_file.content.rows) = 2
    /\ averages.columns = <<"PLR Latency">>
    /\ averages.data[1] = << <<2, 1>> >>

\* the lines a step has added at the end of the master file
AddedLines == SubSeq(master'.lines, Len(master.lines) + 1, Len(master'.lines))

\* the step in which a run writes its result
AvgWriteStep == pc = "calculated" /\ averages # None /\ pc' = "exit"

\* C2: the master file is an append-only log.  Every step keeps the lines already
\* in the file in place; the writing step of a successful run adds, at the end,
\* one data line per group of its input and no header line; no other step
\* changes the file.
C2_AppendOnlyLog ==
    [][ /\ Len(master'.lines) >= Len(master.lines)
        /\ SubSeq(master'.lines, 1, Len(master.lines)) = master.lines
        /\ AvgWriteStep =>
              /\ master'.exists
              /\ Len(AddedLines) = Cardinality(CompletePairs(csv_file.content.rows))
              /\ \A i \in 1..Len(AddedLines) :
                    /\ AddedLines[i][1] # "MeasurementType"
                    /\ \A j \in 1..Len(AddedLines) :
                          (i # j) => SubSeq(AddedLines[i], 1, 2) # SubSeq(AddedLines[j], 1, 2)
        /\ ~AvgWriteStep => master' = master ]_vars

\* C2 witness: two successful runs on the same subject file have left its lines twice
C2_Witness ==
    /\ pc = "exit" /\ runs = 2
    /\ \E n \in 1..Len(master.lines) :
          /\ Len(master.lines) = 2 * n
          /\ SubSeq(master.lines, 1, n) = SubSeq(master.lines, n + 1, 2 * n)
          /\ n = Cardinality(CompletePairs(subject.rows))

\* the current run has no usable input: nothing selected, a file that does not
\* load, or a table lacking a key column
AvgNoInput == pc # "start" /\ ~AvgLoaded

AvgMessages ==
    {"No file selected. Exiting program.", "Error while processing the file",
     "Error: column is missing"}

\* C3: in a run with no selection, a file that fails to load, or a table without
\* Pupil Measured or MeasurementType, no step creates or changes the master file,
\* calculate_averages (if called) returns None, and by the end of the run one of
\* the diagnostics has been printed.
C3_NoInputNoOutput ==
    [][ AvgNoInput' =>
          /\ master' = master
          /\ averages' = None
          /\ (pc' = "exit") => (Range(stdout') \cap AvgMessages # {}) ]_vars

\* C3 witness: a run on a table without MeasurementType has ended, after an
\* earlier run, and the master file still does not exist
C3_Witness ==
    /\ pc = "exit" /\ runs = 2
    /\ csv_file.content.kind = "csv"
    /\ "MeasurementType" \notin Range(csv_file.content.columns)
    /\ "Error: column is missing" \in Range(stdout)
    /\ averages = None
    /\ ~master.exists

-----------------------------------------------------------------------------
(* Splitter: input tables *)

required_columns ==
    <<"MeasurementType", "Pupil Measured", "Patient ID",
      "PLR Diameter Init", "PLR Diameter End", "PLR Latency",
      "PLR Constriction Velocity", "PLR Max Constriction Velocity",
      "PLR Dilation Velocity", "PLR T75", "Amplitude">>

\* columns of a complete export: the required ones and one the splitter drops
SplitColumns == required_columns \o <<"Record ID">>

\* the column sets of the modelled exports: complete, or lacking one required column
SplitColumnSets ==
    {SplitColumns} \cup
    { SelectSeq(SplitColumns, LAMBDA c : c # required_columns[i]) : i \in 1..Len(required_columns) }

\* key values in the order groupby(sort=True) yields them
SplitMTOrder == <<"1", "1/2", "1_OD">>
SplitPupilOrder == <<"L", "OD_L">>

SplitMTCells == {<<SplitMTOrder[i]>> : i \in 1..Len(SplitMTOrder)} \cup {Missing}
SplitPupilCells == {<<SplitPupilOrder[i]>> : i \in 1..Len(SplitPupilOrder)} \cup {Missing}

SplitRow(mt, pupil) ==
    [c \in Range(SplitColumns) |->
        CASE c = "MeasurementType" -> mt
          [] c = "Pupil Measured"  -> pupil
          [] c = "Record ID"       -> <<7>>
          [] OTHER                  -> <<1>>]

SplitRows(cols) ==
    { [c \in Range(cols) |-> r[c]] :
        r \in {SplitRow(mt, pupil) : mt \in SplitMTCells, pupil \in SplitPupilCells} }

SplitTables ==
    UNION { { [kind |-> "csv", columns |-> cols, rows |-> rs] :
                rs \in SeqUpTo(SplitRows(cols), MaxRows) } : cols \in SplitColumnSets }

SplitSelections(t) == {NoSelection, Unreadable, [path |-> "export.csv", content |-> t]}

-----------------------------------------------------------------------------
(* Splitter: split_csv_file *)

SplitKeyOrder ==
    [i \in 1..(Len(SplitMTOrder) * Len(SplitPupilOrder)) |->
        << <<SplitMTOrder[((i - 1) \div Len(SplitPupilOrder)) + 1]>>,
           <<SplitPupilOrder[((i - 1) % Len(SplitPupilOrder)) + 1]>> >>]

\* df.groupby([...]): the keys of the groups, rows with a missing key value dropped
SplitGroupKeys(rows) ==
    SelectSeq(SplitKeyOrder, LAMBDA k : \E i \in 1..Len(rows) : RowKey(rows[i]) = k)

\* df = df[required_columns]
Project(rows) == [i \in 1..Len(rows) |-> [c \in Range(required_columns) |-> rows[i][c]]]

\* f"{measurement_type}_{pupil_measured}_tebs.csv"
filename(k) == k[1][1] \o "_" \o k[2][1] \o "_tebs.csv"

\* key texts that carry a path separator: the file they name lies in a
\* subdirectory that does not exist, and opening it for writing raises
TextsWithSeparator == {"1/2"}
WriteRaises(k) == k[1][1] \in TextsWithSeparator \/ k[2][1] \in TextsWithSeparator

\* text of a cell as to_csv writes it
CsvField(c, cell) ==
    IF IsMissing(cell) THEN ""
    ELSE IF c \in {"MeasurementType", "Pupil Measured"} THEN cell[1]
    ELSE ToString(cell[1])

\* group.to_csv(file_path, index=False): header line, then one line per row
GroupFile(k, rows) ==
    [name   |-> filename(k),
     header |-> required_columns,
     lines  |-> [i \in 1..Len(rows) |->
                   [j \in 1..Len(required_columns) |->
                       CsvField(required_columns[j], rows[i][required_columns[j]])]]]

\* writing a file replaces the file of that name
PutFile(fs, f) == {g \in fs : g.name # f.name} \cup {f}

\* the for loop over the groups; a raised error ends it
RECURSIVE WriteGroups(_, _, _, _, _)
WriteGroups(keys, rows, fs, wr, out) ==
    IF keys = <<>>
    THEN [files |-> fs, written |-> wr, out |-> out]
    ELSE IF WriteRaises(Head(keys))
    THEN [files |-> fs, written |-> wr,
          out |-> Append(out, "Error while processing the file")]
    ELSE WriteGroups(Tail(keys), rows,
                     PutFile(fs, GroupFile(Head(keys), GroupRows(rows, Head(keys)))),
                     Append(wr, filename(Head(keys))),
                     Append(out, "Saved"))

\* a split_csv_file that creates the output directory before checking the columns
split_csv_file_mkdir_first(f, dir, fs) ==
    IF f.content.kind # "csv"
    THEN [dir |-> dir, files |-> fs, written |-> <<>>,
          out |-> <<"Error while processing the file">>]
    ELSE IF ~(Range(required_columns) \subseteq Range(f.content.columns))
    THEN [dir |-> TRUE, files |-> fs, written |-> <<>>,
          out |-> <<"Error: Some required columns are missing in the CSV file.">>]
    ELSE LET rows == Project(f.content.rows)
             w    == WriteGroups(SplitGroupKeys(rows), rows, fs, <<>>, <<>>)
         IN  [dir |-> TRUE, files |-> w.files, written |-> w.written, out |-> w.out]

\* split_csv_file: the directory, its files, the files written and the messages
split_csv_file(f, dir, fs) ==
    IF f.content.kind # "csv"
    THEN [dir |-> dir, files |-> fs, written |-> <<>>,
          out |-> <<"Error while processing the file">>]
    ELSE IF ~(Range(required_columns) \subseteq Range(f.content.columns))
    THEN [dir |-> dir, files |-> fs, written |-> <<>>,
          out |-> <<"Error: Some required columns are missing in the CSV file.">>]
    ELSE LET rows == Project(f.content.rows)
             w    == WriteGroups(SplitGroupKeys(rows), rows, fs, <<>>, <<>>)
         IN  [dir |-> TRUE, files |-> w.files, written |-> w.written, out |-> w.out]

-----------------------------------------------------------------------------
(* Splitter: the script *)

SplitInit ==
    /\ StatsIdle
    /\ pc = "start"
    /\ runs = 0
    /\ subject \in SplitTables
    /\ csv_file = NoSelection
    /\ stdout = <<>>
    /\ averages = None
    /\ master = Absent
    /\ dir_exists = FALSE
    /\ files = {}
    /\ written = <<>>

othersS == <<subject, averages, master, statsVars>>

\* csv_file = select_file()
SplitSelectFile ==
    /\ pc = "start"
    /\ runs < MaxRuns
    /\ \E f \in SplitSelections(subject) : csv_file' = f
    /\ stdout' = <<"Opening file dialog...", "Selected file">>
    /\ runs' = runs + 1
    /\ pc' = "selected"
    /\ UNCHANGED <<dir_exists, files, written, othersS>>

\* if not csv_file: print("No file selected. Exiting program.")
SplitNoFile ==
    /\ pc = "selected"
    /\ csv_file.path = ""
    /\ stdout' = Append(stdout, "No file selected. Exiting program.")
    /\ pc' = "exit"
    /\ UNCHANGED <<runs, csv_file, dir_exists, files, written, othersS>>

\* split_csv_file(csv_file)
SplitCsvFile ==
    /\ pc = "selected"
    /\ csv_file.path # ""
    /\ LET r == split_csv_file(csv_file, dir_exists, files)
       IN  /\ dir_exists' = r.dir
           /\ files' = r.files
           /\ written' = r.written
           /\ stdout' = stdout \o r.out
    /\ pc' = "exit"
    /\ UNCHANGED <<runs, csv_file, othersS>>

\* the process ends; the operator starts the script again
SplitRestart ==
    /\ pc = "exit"
    /\ runs < MaxRuns
    /\ pc' = "start"
    /\ csv_file' = NoSelection
    /\ stdout' = <<>>
    /\ written' = <<>>
    /\ UNCHANGED <<runs, dir_exists, files, othersS>>

SplitNext ==
    \/ SplitSelectFile
    \/ SplitNoFile
    \/ SplitCsvFile
    \/ SplitRestart

SpecSplit == SplitInit /\ [][SplitNext]_vars

-----------------------------------------------------------------------------
(* Splitter: properties *)

\* the selected export loaded and has every required column
SplitLoaded ==
    /\ csv_file.content.kind = "csv"
    /\ Range(required_columns) \subseteq Range(csv_file.content.columns)

\* split_csv_file ran to the end of its loop
SplitCompleted ==
    /\ pc = "exit"
    /\ SplitLoaded
    /\ "Error while processing the file" \notin Range(stdout)

RowsWithPair(rows, k) == {i \in 1..Len(rows) : RowKey(rows[i]) = k}

\* C4: for an input with all eleven required columns, after split_csv_file
\* completes the number of files written equals the number of distinct
\* (MeasurementType, Pupil Measured) pairs, the file of a pair holds as many rows
\* as the input has rows with that pair, and every written file has exactly the
\* eleven required columns.  (Pairs are counted among the rows whose two key
\* values are present.)
C4_OneFilePerPair ==
    SplitCompleted =>
        LET rows  == csv_file.content.rows
            pairs == CompletePairs(rows)
        IN  /\ Cardinality({f \in files : f.name \in Range(written)}) = Cardinality(pairs)
            /\ \A k \in pairs :
                  \E f \in files :
                      /\ f.name = filename(k)
                      /\ Len(f.lines) = Cardinality(RowsWithPair(rows, k))
            /\ \A f \in files :
                  f.name \in Range(written) =>
                      /\ f.header = required_columns
                      /\ Len(f.header) = 11

\* the step in which split_csv_file runs on an export lacking a required column
SplitMissingColumnStep ==
    /\ pc = "selected" /\ pc' = "exit"
    /\ csv_file.content.kind = "csv"
    /\ \E i \in 1..Len(required_columns) :
          required_columns[i] \notin Range(csv_file.content.columns)

\* C5: when a required column is absent, split_csv_file prints the error and
\* returns: no file is written or changed, the output directory is not
\* created, and no fault is reported.
C5_MissingColumnWritesNothing ==
    [][ SplitMissingColumnStep =>
          /\ files' = files
          /\ written' = <<>>
          /\ dir_exists' = dir_exists
          /\ stdout' = Append(stdout, "Error: Some required columns are missing in the CSV file.") ]_vars

\* C5 witness: a first run on an export with rows but without the Amplitude
\* column has ended with the error, no directory and no file
C5_Witness ==
    /\ pc = "exit" /\ runs = 1
    /\ csv_file.content.kind = "csv"
    /\ "Amplitude" \notin Range(csv_file.content.columns)
    /\ Len(csv_file.content.rows) > 0
    /\ "Error: Some required columns are missing in the CSV file." \in Range(stdout)
    /\ ~dir_exists /\ files = {} /\ written = <<>>

-----------------------------------------------------------------------------
(* Statistics pipeline: datasets *)

\* a dataset row carries its Group cell and, in the cell "variables", whether the
\* dependent variables and covariates of the row are all present (<<1>>) or one
\* of them is missing (<<>>)
StatsColumnSets == { <<"Group", "variables">>, <<"variables">> }

GroupCells ==
    <<<<"Control">>, <<"Preg Norm">>, <<"Preg Hyper">>, <<"Healthy">>>>

\* the kinds of row, in a fixed order
StatsRowKinds ==
    [n \in 1..(2 * Len(GroupCells)) |->
        [c \in {"Group", "variables"} |->
            IF c = "Group" THEN GroupCells[((n - 1) \div 2) + 1]
            ELSE IF n % 2 = 1 THEN <<1>> ELSE Missing]]

\* no stage depends on the order of the rows: the datasets list their rows in
\* the order of StatsRowKinds
StatsRowLists ==
    { [i \in 1..Len(q) |-> StatsRowKinds[q[i]]] :
        q \in { q \in SeqUpTo(1..Len(StatsRowKinds), MaxRows) :
                  \A i \in 1..(Len(q) - 1) : q[i] <= q[i + 1] } }

StatsTables ==
    UNION { { [kind |-> "csv", columns |-> cols,
               rows |-> [i \in 1..Len(rs) |-> [c \in Range(cols) |-> rs[i][c]]]] :
                rs \in StatsRowLists } : cols \in StatsColumnSets }

StatsSelections(t) == {NoSelection, Unreadable, [path |-> "merged.csv", content |-> t]}

-----------------------------------------------------------------------------
(* Statistics pipeline: the stages *)

dependent_vars ==
    <<"PLR_Diameter_Init", "PLR_Diameter_End", "PLR_Latency", "PLR_Dilation_Velocity", "Amplitude">>

\* a replace that maps 'Preg Norm' alone
replace_preg_norm_only(cell) ==
    IF cell = <<"Preg Norm">> THEN <<"Pregnant">> ELSE cell

\* Series.replace({'Preg Norm': 'Pregnant', 'Preg Hyper': 'Pregnant'}) on one cell
replace(cell) ==
    IF cell \in {<<"Preg Norm">>, <<"Preg Hyper">>} THEN <<"Pregnant">> ELSE cell

\* df['Group'] = df['Group'].replace(...)
coalesce(rows) ==
    [i \in 1..Len(rows) |-> [rows[i] EXCEPT !["Group"] = replace(rows[i]["Group"])]]

\* the rows selected by df[group_col] == label, as row positions
mask(rows, label) == {i \in 1..Len(rows) : rows[i]["Group"] = <<label>>}

\* df[df[group_col] == 'Control'].dropna(subset=dependent_vars + covariates)
df_control(rows) == {i \in mask(rows, "Control") : ~IsMissing(rows[i]["variables"])}

\* df[df[group_col] == 'Pregnant']
df_pregnant(rows) == mask(rows, "Pregnant")

\* a Control selection that compares with a label the coalesced data never has
control_group_lowercase(rows) == mask(rows, "control")

\* df[df[group_col] == 'Control'][dep_var] and df[df[group_col] == 'Pregnant'][dep_var]
control_group(rows) == mask(rows, "Control")
pregnant_group(rows) == mask(rows, "Pregnant")

\* p-values in thousandths (<<>> is NaN); the threshold 0.05
Alpha == 50

NormalityPValues == {<<50>>, <<51>>}
TestPValues == {<<49>>, <<50>>}

\* p > 0.05 and p < 0.05 on floats: a comparison with NaN is False
GreaterThan(p, a) == ~IsMissing(p) /\ p[1] > a
LessThan(p, a) == ~IsMissing(p) /\ p[1] < a

\* a gate that also takes a p-value equal to the threshold as normal
both_normal_inclusive(p_control, p_pregnant) ==
    /\ ~IsMissing(p_control) /\ p_control[1] >= Alpha
    /\ ~IsMissing(p_pregnant) /\ p_pregnant[1] >= Alpha

\* p_normality_control > 0.05 and p_normality_pregnant > 0.05
both_normal(p_control, p_pregnant) ==
    GreaterThan(p_control, Alpha) /\ GreaterThan(p_pregnant, Alpha)

\* f"{p_val:.3f}" for the modelled p-values
FormatP(p) == "0.0" \o ToString(p[1])

\* the lines one Step 4 iteration writes into the report
comparison_lines(dep_var, p_control, p_pregnant, p_val) ==
    << "Comparing " \o dep_var \o " across groups",
       IF both_normal(p_control, p_pregnant) THEN "One-way ANOVA:" ELSE "Kruskal-Wallis H-test:",
       IF LessThan(p_val, Alpha)
       THEN dep_var \o ": Significant differences found (p = " \o FormatP(p_val) \o ")"
       ELSE dep_var \o ": No significant differences found (p = " \o FormatP(p_val) \o ")" >>

\* file.write(text): raises ValueError on a closed file
write(file, text) ==
    IF file.open
    THEN [raised |-> FALSE, file |-> [file EXCEPT !.lines = Append(@, text)]]
    ELSE [raised |-> TRUE, file |-> file]

\* leaving the with block closes the file
close(file) == [file EXCEPT !.open = FALSE]

CorrelationLines ==
    <<"Correlation Matrix (with p-values):", "Correlation Coefficients:", "P-values:",
      "Correlation matrix saved as 'Correlation_Matrix.csv'.",
      "P-values matrix saved as 'P_Values_Matrix.csv'.",
      "Correlation Matrix with P-values:",
      "Correlation heatmap saved as 'Correlation_Heatmap.png'.">>

CorrelationArtifacts ==
    {"Correlation_Matrix.csv", "P_Values_Matrix.csv", "Combined_Correlation_Pvalues.csv",
     "Correlation_Heatmap.png"}

ancova_csv(dep_var) == dep_var \o "_ANCOVA_table.csv"

-----------------------------------------------------------------------------
(* Statistics pipeline: the script *)

StatsInit ==
    /\ pc = "start"
    /\ runs = 0
    /\ subject \in StatsTables
    /\ csv_file = NoSelection
    /\ stdout = <<>>
    /\ averages = None
    /\ master = Absent
    /\ dir_exists = FALSE
    /\ files = {}
    /\ written = <<>>
    /\ StatsIdle

othersT == <<runs, subject, averages, master, dir_exists, files, written>>

\* file_path = filedialog.askopenfilename(...)
StatsSelectInput ==
    /\ pc = "start"
    /\ \E f \in StatsSelections(subject) : csv_file' = f
    /\ pc' = "input_chosen"
    /\ UNCHANGED <<stdout, statsVars, othersT>>

\* if not file_path: print("No file selected. Exiting..."); exit()
StatsNoInput ==
    /\ pc = "input_chosen"
    /\ csv_file.path = ""
    /\ stdout' = Append(stdout, "No file selected. Exiting...")
    /\ pc' = "exit"
    /\ UNCHANGED <<csv_file, statsVars, othersT>>

\* try: df = pd.read_csv(file_path) ... except: print(...); exit()
StatsLoad ==
    /\ pc = "input_chosen"
    /\ csv_file.path # ""
    /\ IF csv_file.content.kind = "csv"
       THEN /\ df' = csv_file.content
            /\ stdout' = Append(stdout, "Data loaded successfully")
            /\ pc' = "loaded"
       ELSE /\ df' = df
            /\ stdout' = Append(stdout, "Error loading file")
            /\ pc' = "exit"
    /\ UNCHANGED <<csv_file, output_file, report, artifacts, comparison, next_var, othersT>>

\* output_file = filedialog.asksaveasfilename(...); exit() when nothing is chosen.
\* The directory of a chosen path exists, so os.makedirs is not called.
StatsSelectOutput ==
    /\ pc = "loaded"
    /\ \E o \in {"", "results.txt"} :
          /\ output_file' = o
          /\ IF o = ""
             THEN /\ stdout' = Append(stdout, "No output file selected. Exiting...")
                  /\ pc' = "exit"
             ELSE /\ stdout' = stdout
                  /\ pc' = "output_chosen"
    /\ UNCHANGED <<csv_file, df, report, artifacts, comparison, next_var, othersT>>

\* with open(output_file, 'w') as file: file.write(header)
StatsOpenReport ==
    /\ pc = "output_chosen"
    /\ report' = write([exists |-> TRUE, open |-> TRUE, lines |-> <<>>],
                       "Results for data from " \o csv_file.path).file
    /\ pc' = "opened"
    /\ UNCHANGED <<csv_file, stdout, df, output_file, artifacts, comparison, next_var, othersT>>

\* Step 1; df['Group'] raises KeyError when the dataset has no Group column
StatsCoalesce ==
    /\ pc = "opened"
    /\ IF "Group" \in Range(df.columns)
       THEN /\ df' = [df EXCEPT !.rows = coalesce(df.rows)]
            /\ report' = report
            /\ pc' = "coalesced"
       ELSE /\ df' = df
            /\ report' = close(report)
            /\ pc' = "crashed"
    /\ UNCHANGED <<csv_file, stdout, output_file, artifacts, comparison, next_var, othersT>>

\* Steps 2 and 3: the correlation and p-value matrices, their report lines, CSV
\* files and heatmap.  pearsonr raises on a degenerate sample, before any of them
\* is written.
StatsCorrelation ==
    /\ pc = "coalesced"
    /\ \E raised \in BOOLEAN :
          IF raised
          THEN /\ report' = close(report)
               /\ artifacts' = artifacts
               /\ pc' = "crashed"
          ELSE /\ report' = [report EXCEPT !.lines = @ \o CorrelationLines]
               /\ artifacts' = artifacts \cup CorrelationArtifacts
               /\ pc' = "compare"
    /\ UNCHANGED <<csv_file, stdout, df, output_file, comparison, next_var, othersT>>

\* Step 4, one iteration: shapiro on both groups, then f_oneway or kruskal; any
\* of them raises on a degenerate sample
StatsCompare ==
    /\ pc = "compare"
    /\ \E raised \in BOOLEAN :
          IF raised
          THEN /\ report' = close(write(report, "Comparing " \o dependent_vars[next_var]
                                                  \o " across groups").file)
               /\ comparison' = comparison
               /\ next_var' = next_var
               /\ pc' = "crashed"
          ELSE \E p_control \in NormalityPValues, p_pregnant \in NormalityPValues,
                  p_val \in TestPValues :
                 /\ report' = [report EXCEPT !.lines = @ \o
                        comparison_lines(dependent_vars[next_var], p_control, p_pregnant, p_val)]
                 /\ comparison' = [dep_var |-> dependent_vars[next_var],
                                    p_normality_control |-> p_control,
                                    p_normality_pregnant |-> p_pregnant,
                                    p_val |-> p_val]
                 /\ IF next_var = Len(dependent_vars)
                    THEN next_var' = 1 /\ pc' = "regress"
                    ELSE next_var' = next_var + 1 /\ pc' = "compare"
    /\ UNCHANGED <<csv_file, stdout, df, output_file, artifacts, othersT>>

\* the report after the first n iterations of Step 5 have written their lines
RECURSIVE regression_lines(_, _)
regression_lines(file, n) ==
    IF n = 0 THEN file
    ELSE write(write(regression_lines(file, n - 1),
                     "Controlling for covariates for " \o dependent_vars[n]).file,
               dependent_vars[n] \o " ANCOVA Table:").file

\* Step 5, the loop: for each dependent variable ols(...).fit() and anova_lm,
\* the table written to the report and to its CSV file.  The fit raises on a
\* degenerate dataset; n iterations complete before one does (all of them when
\* n is the number of dependent variables).  The values of Step 4 are not read
\* again.
StatsRegression ==
    /\ pc = "regress"
    /\ \E n \in 0..Len(dependent_vars) :
          /\ artifacts' = artifacts \cup {ancova_csv(dependent_vars[i]) : i \in 1..n}
          /\ IF n = Len(dependent_vars)
             THEN /\ report' = regression_lines(report, n)
                  /\ next_var' = n
                  /\ pc' = "finish"
             ELSE /\ report' = close(write(regression_lines(report, n),
                          "Controlling for covariates for " \o dependent_vars[n + 1]).file)
                  /\ next_var' = n + 1
                  /\ pc' = "crashed"
    /\ comparison' = None
    /\ UNCHANGED <<csv_file, stdout, df, output_file, othersT>>

\* the with block ends, then file.write("Analysis complete.") and the two prints
StatsFinish ==
    /\ pc = "finish"
    /\ LET w == write(close(report), "Analysis complete.")
       IN  /\ report' = w.file
           /\ IF w.raised
              THEN /\ stdout' = stdout
                   /\ pc' = "crashed"
              ELSE /\ stdout' = stdout \o <<"Results and visualizations saved", "CSV files saved">>
                   /\ pc' = "done"
    /\ UNCHANGED <<csv_file, df, output_file, artifacts, comparison, next_var, othersT>>

StatsNext ==
    \/ StatsSelectInput
    \/ StatsNoInput
    \/ StatsLoad
    \/ StatsSelectOutput
    \/ StatsOpenReport
    \/ StatsCoalesce
    \/ StatsCorrelation
    \/ StatsCompare
    \/ StatsRegression
    \/ StatsFinish

SpecStats == StatsInit /\ [][StatsNext]_vars

-----------------------------------------------------------------------------
(* Statistics pipeline: properties *)

\* Step 1 has run on the loaded dataset and the run has not crashed since
Coalesced == pc \in {"coalesced", "compare", "regress", "finish", "done"}

\* the dataset as it was loaded from the file
Loaded == csv_file.content.rows

CountLabel(rows, label) == Cardinality(mask(rows, label))

LabelsOf(rows) == {rows[i]["Group"] : i \in 1..Len(rows)}

\* C8: for a dataset whose Group labels are drawn from Control, Preg Norm and
\* Preg Hyper, after coalescing the labels are among Control and Pregnant, the
\* number of rows and the number of Control rows are unchanged, the number of
\* Pregnant rows is the number of Preg Norm rows plus that of Preg Hyper rows,
\* and no other column is changed.
C8_Coalescing ==
    (Coalesced /\ LabelsOf(Loaded) \subseteq {<<"Control">>, <<"Preg Norm">>, <<"Preg Hyper">>}) =>
        /\ LabelsOf(df.rows) \subseteq {<<"Control">>, <<"Pregnant">>}
        /\ Len(df.rows) = Len(Loaded)
        /\ CountLabel(df.rows, "Control") = CountLabel(Loaded, "Control")
        /\ CountLabel(df.rows, "Pregnant") =
              CountLabel(Loaded, "Preg Norm") + CountLabel(Loaded, "Preg Hyper")
        /\ df.columns = csv_file.content.columns
        /\ \A i \in 1..Len(Loaded) : df.rows[i]["variables"] = Loaded[i]["variables"]

\* C8 witness: a dataset with a Preg Norm row and a Preg Hyper row has been coalesced
C8_Witness ==
    /\ Coalesced
    /\ LabelsOf(Loaded) = {<<"Preg Norm">>, <<"Preg Hyper">>}
    /\ CountLabel(df.rows, "Pregnant") = 2

\* the Step 4 iterations completed so far
ComparisonsDone ==
    CASE pc = "compare" -> next_var - 1
      [] pc \in {"regress", "finish", "done"} -> Len(dependent_vars)
      [] OTHER -> 0

TestLines == {"One-way ANOVA:", "Kruskal-Wallis H-test:"}

CountTestLines == Cardinality({i \in 1..Len(report.lines) : report.lines[i] \in TestLines})

\* a Step 4 iteration has just completed
JustCompared == comparison # None /\ pc \in {"compare", "regress"}

\* the last n lines of the report
LastLines(n) == SubSeq(report.lines, Len(report.lines) - n + 1, Len(report.lines))

\* C9: each completed Step 4 iteration has run exactly one test; it is one-way
\* ANOVA iff both Shapiro-Wilk p-values are strictly above 0.05, Kruskal-Wallis
\* otherwise (a p-value equal to 0.05 included); the result is reported as
\* significant iff the p-value of the test is strictly below 0.05.
C9_TestSelection ==
    /\ pc \in {"compare", "regress", "finish", "done"} => CountTestLines = ComparisonsDone
    /\ JustCompared =>
          LET c == comparison
              normal == c.p_normality_control[1] > 50 /\ c.p_normality_pregnant[1] > 50
              lines == LastLines(3)
          IN  /\ lines[1] = "Comparing " \o c.dep_var \o " across groups"
              /\ lines[2] = (IF normal THEN "One-way ANOVA:" ELSE "Kruskal-Wallis H-test:")
              /\ lines[3] = c.dep_var \o
                    (IF c.p_val[1] < 50 THEN ": Significant differences found (p = "
                                        ELSE ": No significant differences found (p = ")
                    \o FormatP(c.p_val) \o ")"

\* C9 witness: Kruskal-Wallis was selected because the Control p-value equals 0.05
\* while the Pregnant one is above it, and the result was significant
C9_Witness ==
    /\ JustCompared
    /\ comparison.p_normality_control = <<50>>
    /\ comparison.p_normality_pregnant = <<51>>
    /\ comparison.p_val = <<49>>
    /\ LastLines(2)[1] = "Kruskal-Wallis H-test:"

\* row i is in a Control or Pregnant subset of the correlation stage, of the
\* group-comparison stage
InCorrelationSubset(i) == i \in df_control(df.rows) \cup df_pregnant(df.rows)
InComparisonSubset(i) == i \in control_group(df.rows) \cup pregnant_group(df.rows)

MappedLabels == {<<"Control">>, <<"Preg Norm">>, <<"Preg Hyper">>, <<"Pregnant">>}

AllArtifacts ==
    CorrelationArtifacts \cup {ancova_csv(dependent_vars[i]) : i \in 1..Len(dependent_vars)}

\* the run has ended, by exit(), by an unhandled fault or by reaching the end
StatsEnded == pc \in {"exit", "crashed", "done"}

\* C7: when input and output are selected, the input loads and every stage
\* completes without fault, the pipeline ends normally, with the final
\* 'Analysis complete.' line in the report and the two closing messages printed.
C7_NormalTermination ==
    (StatsEnded /\ AllArtifacts \subseteq artifacts) =>
        /\ pc = "done"
        /\ report.lines[Len(report.lines)] = "Analysis complete."
        /\ SubSeq(stdout, Len(stdout) - 1, Len(stdout)) =
              <<"Results and visualizations saved", "CSV files saved">>

\* C6: no partial output on failure.  A splitter run that reported a fault has
\* written no file; a statistics run that ended by exit() or by a fault has
\* created neither the report nor any artifact.
C6_NoPartialOutput ==
    /\ (pc = "exit" /\ "Error while processing the file" \in Range(stdout)) => written = <<>>
    /\ pc \in {"exit", "crashed"} => (~report.exists /\ artifacts = {})

====
